---- MODULE Spec2Model ----
(***************************************************************************)
(* A model of the PMC complaint status checker:                            *)
(*   - validate_token            (src/pmc_complaint_checker_v2.py)         *)
(*   - MySQLRepository           (src/repository.py)                       *)
(*   - process_token, fetch_token_details, main, lambda_handler            *)
(*                               (src/pmc_complaint_checker_v2.py)         *)
(*                                                                         *)
(* Python values are modelled as follows.  A str that is inspected         *)
(* character by character (a token) is a sequence of characters.  A dict   *)
(* is a function whose DOMAIN is the set of keys present.  None is NULL.   *)
(***************************************************************************)
EXTENDS Integers, Sequences, FiniteSets, Bags, TLC

VARIABLES
    \* ---- one call of validate_token
    v_token,              \* the argument
    v_pc,                 \* "call" before the call, "returned" after it
    v_result,             \* the value returned
    \* ---- the database behind MySQLRepository
    conn,                 \* "closed" | "open"  (self.conn)
    complaints,           \* committed rows of table complaints (a set, keyed by token)
    tracking_history,     \* committed rows of table tracking_history (a bag: the id column,
                          \* which save_complaint neither reads nor writes, only tells
                          \* equal rows apart)
    txn_complaints,       \* table complaints as the open connection sees it
    txn_tracking_history, \* table tracking_history as the open connection sees it
    last_call,            \* history: the latest save_complaint call and how it ended
    repeated,             \* history: TRUE when the latest save_complaint call got the record of
                          \* the call before it, which had committed
    \* ---- one run of main / lambda_handler
    entry,                \* "main" | "lambda" | "none"
    pc,                   \* position in the entry point
    argv_tokens,          \* the tokens given on the command line / in the event
    valid_tokens,         \* main's / lambda_handler's local valid_tokens
    fetch_results,        \* fetch_token_details' local results
    pages,                \* history: what the site served for each processed token
    results,              \* main's / lambda_handler's local results
    driver,               \* "none" | "open" | "quit"
    user_data_dir,        \* "absent" | "present": the /tmp/user-data-<uuid> directory
    setup_calls,          \* number of setup_driver calls that started a browser
    quit_calls,           \* number of driver.quit() calls
    exported,             \* what reached the JSON file (main) or the 200 body (lambda)
    exc,                  \* "none" | "Exception" | "KeyboardInterrupt": how the run ended
    save_idx              \* position of the save loop in results

validate_vars == <<v_token, v_pc, v_result>>
store_vars == <<conn, complaints, tracking_history, txn_complaints,
                txn_tracking_history, last_call, repeated>>
batch_vars == <<entry, pc, argv_tokens, valid_tokens, fetch_results, pages, results,
                driver, user_data_dir, setup_calls, quit_calls, exported, exc, save_idx>>
vars == <<validate_vars, store_vars, batch_vars>>

\* None
NULL == "<None>"
\* {}
EmptyDict == [k \in {} |-> NULL]
\* dict.get(key, default)
Get(d, k, default) == IF k \in DOMAIN d THEN d[k] ELSE default

(***************************************************************************)
(* validate_token                                                          *)
(***************************************************************************)
\* Longest token string tried.
MaxLen == 3

\* '0'..'9'; two of them stand for all ten.
AsciiDigits == {"0", "7"}
\* Characters c with c.isdigit() true: the ASCII digits and the other
\* characters of Unicode class Nd or Numeric_Type=Digit, here U+00B2
\* SUPERSCRIPT TWO ("sup2") and U+0663 ARABIC-INDIC DIGIT THREE ("arabic3").
UnicodeDigits == AsciiDigits \cup {"sup2", "arabic3"}
\* The characters tokens are built from.
Alphabet == {"T", "t", "A"} \cup UnicodeDigits

RECURSIVE StringsOfLen(_)
StringsOfLen(n) ==
    IF n = 0 THEN {<<>>}
    ELSE {Append(s, c) : s \in StringsOfLen(n - 1), c \in Alphabet}
Strings == UNION {StringsOfLen(n) : n \in 0..MaxLen}

\* s.startswith(prefix)
StartsWith(s, prefix) ==
    /\ Len(s) >= Len(prefix)
    /\ \A i \in 1..Len(prefix) : s[i] = prefix[i]
\* s[1:]
Slice1(s) == IF Len(s) = 0 THEN <<>> ELSE Tail(s)
\* s.isdigit(): at least one character and every character is a digit
IsDigit(s) == Len(s) > 0 /\ \A i \in 1..Len(s) : s[i] \in UnicodeDigits

validate_token(token) ==
    StartsWith(token, <<"T">>) /\ IsDigit(Slice1(token)) /\ Len(token) > 1

ValidateInit ==
    /\ v_token \in Strings
    /\ v_pc = "call"
    /\ v_result = FALSE
ValidateIdle ==
    /\ v_token = <<>>
    /\ v_pc = "idle"
    /\ v_result = FALSE

ValidateTokenCall ==
    /\ v_pc = "call"
    /\ v_result' = validate_token(v_token)
    /\ v_pc' = "returned"
    /\ UNCHANGED <<v_token, store_vars, batch_vars>>

(***************************************************************************)
(* MySQLRepository                                                         *)
(***************************************************************************)
\* Most rows table tracking_history holds in the model.
MaxRows == 4

\* Two valid tokens.
TokA == <<"T", "0">>
TokB == <<"T", "7">>

\* One item of complaint_track["tracking_details"], as extract_track_details
\* builds it (the keys save_complaint never reads carry fixed values).
Event(action_date, remark, current_action) ==
    [sr |-> "1", ticket_no |-> "K1", ticket_date |-> "01/01", from_user |-> "clerk",
     complaints |-> "text", office |-> "ward", department |-> "roads",
     to_user |-> "engineer", remark |-> remark, action_date |-> action_date,
     advice |-> "", current_action |-> current_action]
\* An item without the key action_date.
EventNoDate(remark) ==
    [from_user |-> "clerk", to_user |-> "engineer", remark |-> remark,
     current_action |-> "Forwarded"]
\* An item that is no dict (None, a string): item.get raises AttributeError.
Malformed == [malformed |-> TRUE]
IsDict(item) == "malformed" \notin DOMAIN item

\* The tracking_details lists given to save_complaint.
TrackingLists ==
    { <<>>,
      <<Event("d1", "r1", "Forwarded")>>,
      <<Event("d1", "r2", "Forwarded")>>,
      <<Event("d1", "r1", "Forwarded"), Event("d2", "r1", "Closed")>>,
      <<Event("d1", "r2", "Forwarded"), Event("d1", "r1", "Closed")>>,
      <<EventNoDate("r1")>>,
      <<Event("d2", "r1", "Closed"), Malformed>> }

\* A result whose listing and drill-down were both read.
FullData(token, details) ==
    [token |-> token, status |-> "Closed", error |-> NULL,
     token_details |->
        [sr_no |-> "1", token_no |-> "T", date |-> "01/01", description |-> "Garbage",
         location |-> "Ward 4", complaint_type |-> "Sanitation", status |-> "Closed",
         has_track_button |-> TRUE, track_button_id |-> "btn"],
     complaint_track |->
        [overall_info |->
            [token_no |-> "T", status |-> "Closed", complaint_category |-> "Waste",
             expected_resolved_date |-> "05/01"],
         tracking_details |-> details]]
\* A result with an empty description, no location and an empty overview.
PartialData(token, details) ==
    [token |-> token, status |-> "Open", error |-> NULL,
     token_details |-> [description |-> "", complaint_type |-> "Roads", status |-> "Open"],
     complaint_track |-> [overall_info |-> EmptyDict, tracking_details |-> details]]
\* A result as process_token leaves it when nothing was read.
BareData(token) ==
    [token |-> token, status |-> "Failed", error |-> "No data found for this token",
     token_details |-> EmptyDict, complaint_track |-> EmptyDict]
\* A record without the key token.
NoTokenData ==
    [status |-> "Closed", token_details |-> [description |-> "Garbage"],
     complaint_track |-> [tracking_details |-> <<Event("d1", "r1", "Forwarded")>>]]

\* The records given to save_complaint.
RecordInputs ==
    {FullData(TokA, d) : d \in TrackingLists}
        \cup {PartialData(TokA, <<>>),
              PartialData(TokA, <<Event("d1", "r2", "Forwarded")>>),
              FullData(TokB, <<Event("d1", "r1", "Forwarded")>>),
              PartialData(TokB, <<EventNoDate("r1")>>),
              BareData(TokA), BareData(TokB),
              FullData(<<>>, <<Event("d1", "r1", "Forwarded")>>), NoTokenData}

\* The parameters of the INSERT INTO complaints statement.
ComplaintParams(token, complaint_data) ==
    LET token_details == Get(complaint_data, "token_details", EmptyDict)
        overall_info ==
            Get(Get(complaint_data, "complaint_track", EmptyDict), "overall_info", EmptyDict)
    IN  [token |-> token,
         status |-> Get(complaint_data, "status", NULL),
         description |-> Get(token_details, "description", "Unknown"),
         location |-> Get(token_details, "location", "Unknown"),
         complaint_type |-> Get(token_details, "complaint_type", "Unknown"),
         complaint_category |-> Get(overall_info, "complaint_category", NULL),
         expected_resolved_date |-> Get(overall_info, "expected_resolved_date", NULL)]

\* The parameters of the INSERT IGNORE INTO tracking_history statement.
TrackingParams(token, record) ==
    [token |-> token,
     action_date |-> Get(record, "action_date", NULL),
     from_user |-> Get(record, "from_user", NULL),
     to_user |-> Get(record, "to_user", NULL),
     status |-> Get(record, "current_action", NULL),
     remark |-> Get(record, "remark", NULL)]

\* An upsert whose UPDATE list lacks description and complaint_category.
M_UpsertComplaint_keep_description(table, row) ==
    IF \E r \in table : r.token = row.token
    THEN {IF r.token = row.token
          THEN [r EXCEPT !.status = row.status,
                         !.location = row.location,
                         !.complaint_type = row.complaint_type,
                         !.expected_resolved_date = row.expected_resolved_date]
          ELSE r : r \in table}
    ELSE table \cup {row}
\* INSERT INTO complaints ... ON DUPLICATE KEY UPDATE <every other column>:
\* token is the PRIMARY KEY.
UpsertComplaint(table, row) ==
    IF \E r \in table : r.token = row.token
    THEN {IF r.token = row.token
          THEN [r EXCEPT !.status = row.status,
                         !.description = row.description,
                         !.location = row.location,
                         !.complaint_type = row.complaint_type,
                         !.complaint_category = row.complaint_category,
                         !.expected_resolved_date = row.expected_resolved_date]
          ELSE r : r \in table}
    ELSE table \cup {row}

\* A unique key on token alone.
M_UniqueConflict_token_only(r, row) == r.token = row.token
\* UNIQUE KEY uniq_token_action_date (token, action_date): a row conflicts with
\* a new one when both columns are equal and not NULL (a UNIQUE index admits
\* any number of rows with a NULL in an indexed column).
UniqueConflict(r, row) ==
    /\ r.token = row.token
    /\ r.action_date = row.action_date
    /\ row.action_date # NULL

\* An insert that overwrites the row it conflicts with (REPLACE-like).
M_InsertIgnoreTracking_overwrite(table, row) ==
    LET old == {r \in BagToSet(table) : UniqueConflict(r, row)}
    IN  (table (-) SetToBag(old)) (+) SetToBag({row})
\* INSERT IGNORE INTO tracking_history: the row is dropped when it conflicts
\* with a stored one, and is added with a fresh id otherwise.  The FOREIGN
\* KEY is not enforced here: whether it is depends on the storage engine, and
\* save_complaint does not rely on it.
InsertIgnoreTracking(table, row) ==
    IF \E r \in BagToSet(table) : UniqueConflict(r, row)
    THEN table
    ELSE table (+) SetToBag({row})

\* The loop over tracking_details from item i on: the table after it, and
\* whether an item raised.
RECURSIVE InsertTracking(_, _, _, _)
InsertTracking(table, token, tracking_details, i) ==
    IF i > Len(tracking_details) THEN [table |-> table, raised |-> FALSE]
    ELSE IF ~IsDict(tracking_details[i]) THEN [table |-> table, raised |-> TRUE]
    ELSE InsertTracking(
            InsertIgnoreTracking(table, TrackingParams(token, tracking_details[i])),
            token, tracking_details, i + 1)

\* not token
TokenMissing(complaint_data) ==
    \/ "token" \notin DOMAIN complaint_data
    \/ complaint_data.token = <<>>

\* save_complaint that writes the children and then the parent.
M_SaveComplaintTxn_children_first(c_table, t_table, complaint_data) ==
    IF TokenMissing(complaint_data)
    THEN [complaints |-> c_table, tracking_history |-> t_table, outcome |-> "skipped"]
    ELSE
        LET token == complaint_data.token
            tracking_details ==
                Get(Get(complaint_data, "complaint_track", EmptyDict),
                    "tracking_details", <<>>)
            children == InsertTracking(t_table, token, tracking_details, 1)
        IN  [complaints |->
                IF children.raised THEN c_table
                ELSE UpsertComplaint(c_table, ComplaintParams(token, complaint_data)),
             tracking_history |-> children.table,
             outcome |-> IF children.raised THEN "raised" ELSE "saved"]
\* save_complaint without the token check: a missing token is stored as NULL.
M_SaveComplaintTxn_no_token_check(c_table, t_table, complaint_data) ==
    LET token == Get(complaint_data, "token", NULL)
        parent == UpsertComplaint(c_table, ComplaintParams(token, complaint_data))
        tracking_details ==
            Get(Get(complaint_data, "complaint_track", EmptyDict),
                "tracking_details", <<>>)
        children == InsertTracking(t_table, token, tracking_details, 1)
    IN  [complaints |-> parent,
         tracking_history |-> children.table,
         outcome |-> IF children.raised THEN "raised" ELSE "saved"]
\* The statements save_complaint runs on the connection's view of the two
\* tables, up to but not including the commit: the view after them and how
\* the call ends ("skipped": returned at the token check; "saved": reached
\* the commit; "raised": an item of tracking_details raised).
SaveComplaintTxn(c_table, t_table, complaint_data) ==
    IF TokenMissing(complaint_data)
    THEN [complaints |-> c_table, tracking_history |-> t_table, outcome |-> "skipped"]
    ELSE
        LET token == complaint_data.token
            parent == UpsertComplaint(c_table, ComplaintParams(token, complaint_data))
            tracking_details ==
                Get(Get(complaint_data, "complaint_track", EmptyDict),
                    "tracking_details", <<>>)
            children == InsertTracking(t_table, token, tracking_details, 1)
        IN  [complaints |-> parent,
             tracking_history |-> children.table,
             outcome |-> IF children.raised THEN "raised" ELSE "saved"]

\* The effect of save_complaint(complaint_data) on the database.
SaveEffect(complaint_data) ==
    LET after == SaveComplaintTxn(txn_complaints, txn_tracking_history, complaint_data)
    IN  /\ txn_complaints' = after.complaints
        /\ txn_tracking_history' = after.tracking_history
        /\ IF after.outcome = "saved"
           THEN /\ complaints' = after.complaints
                /\ tracking_history' = after.tracking_history
           ELSE UNCHANGED <<complaints, tracking_history>>
        /\ last_call' = [record |-> complaint_data, outcome |-> after.outcome]
        /\ repeated' = (complaint_data = last_call.record /\ last_call.outcome = "saved")

StoreInit ==
    /\ conn = "closed"
    /\ complaints = {}
    /\ tracking_history = EmptyBag
    /\ txn_complaints = {}
    /\ txn_tracking_history = EmptyBag
    /\ last_call = [record |-> EmptyDict, outcome |-> "none"]
    /\ repeated = FALSE

\* MySQLRepository.connect: a new connection sees the committed tables;
\* create_tables changes nothing once the tables exist.
ConnectEffect ==
    /\ conn' = "open"
    /\ txn_complaints' = complaints
    /\ txn_tracking_history' = tracking_history
    /\ UNCHANGED <<complaints, tracking_history, last_call, repeated>>
Connect ==
    /\ conn = "closed"
    /\ ConnectEffect
    /\ UNCHANGED <<validate_vars, batch_vars>>

\* MySQLRepository.close: what the connection did not commit is rolled back.
CloseEffect ==
    /\ conn' = "closed"
    /\ txn_complaints' = complaints
    /\ txn_tracking_history' = tracking_history
    /\ UNCHANGED <<complaints, tracking_history, last_call, repeated>>
Close ==
    /\ conn = "open"
    /\ CloseEffect
    /\ UNCHANGED <<validate_vars, batch_vars>>

\* MySQLRepository.save_complaint, called with any record.
SaveComplaint ==
    /\ conn = "open"
    /\ \E complaint_data \in RecordInputs :
        /\ BagCardinality(SaveComplaintTxn(txn_complaints, txn_tracking_history,
                                           complaint_data).tracking_history) <= MaxRows
        /\ SaveEffect(complaint_data)
    /\ UNCHANGED <<conn, validate_vars, batch_vars>>

(***************************************************************************)
(* The site, as one token's processing meets it                            *)
(***************************************************************************)
\* WebElement.text.strip() on the texts the pages of the model serve.
Strip(text) ==
    CASE text = " " -> ""
      [] text = " Closed " -> "Closed"
      [] OTHER -> text

\* The keys extract_token_details_from_table fills from columns 0..6, in order.
ListingKeys ==
    <<"sr_no", "token_no", "date", "description", "location", "complaint_type", "status">>
\* The keys extract_track_details fills from columns 0..11 of a history row.
TrackKeys ==
    <<"sr", "ticket_no", "ticket_date", "from_user", "complaints", "office",
      "department", "to_user", "remark", "action_date", "advice", "current_action">>

\* A history row of the modal with ncols columns.
TrackRow(action_date, remark, current_action, ncols) ==
    SubSeq(<<"1", "K1", "01/01", "clerk", "text", "ward", "roads", "engineer",
             remark, action_date, "", current_action>>, 1, ncols)

\* The modal of a complaint.  stop is the step of extract_track_details that
\* raises: "button" (find_element of the track button), "modal" (the wait for
\* modalComplaintTrack times out), "token", "status", "category", "date"
\* (find_element of that overview field), or "none"; row_fault is the
\* 1-based history row whose reading raises, or 0.
GoodDrill ==
    [stop |-> "none",
     overview |-> [token_no |-> "T", status |-> "Closed", complaint_category |-> "",
                   expected_resolved_date |-> "05/01"],
     rows |-> <<TrackRow("d1", "r1", "Forwarded", 12), TrackRow("d2", "r2", "", 11)>>,
     row_fault |-> 0]
\* A history table with a row of 10 columns between two full rows.
ShortRowDrill ==
    [GoodDrill EXCEPT !.rows = <<TrackRow("d1", "r1", "Forwarded", 12),
                                 TrackRow("d2", "r1", "", 10),
                                 TrackRow("d1", "r2", "Closed", 12)>>]

\* What the site does while one token is processed.
\*   load       "ok" | "fail": driver.get raises
\*   input      "ok" | "timeout": the wait for tokenNo times out
\*   button     "ok" | "missing": find_element of btnSearch raises
\*              NoSuchElementException | "error": click raises another exception
\*   rows_wait  "ok" | "timeout": the wait for the first row of the listing
\*   cols       the texts of the cells of the first listing row
\*   cell_fault 0, or the 1-based column whose .text raises
\*   track_button  "none": no button in column 8 | the id attribute of the
\*              button, "" when it has none
\*   tbody      "empty" | "text" | "missing": element table-data, when looked up
\*   drill      the modal
GoodPage ==
    [load |-> "ok", input |-> "ok", button |-> "ok", rows_wait |-> "ok",
     cols |-> <<"1", "T", "01/01", "Garbage", "Ward 4", "Sanitation", " Closed ", "">>,
     cell_fault |-> 0, track_button |-> "btn", tbody |-> "text", drill |-> GoodDrill]
\* A listing whose table is there and holds nothing.
NoDataPage ==
    [GoodPage EXCEPT !.rows_wait = "timeout", !.cols = <<>>, !.tbody = "empty"]

\* The pages a token can meet.
Pages ==
    { GoodPage,
      [GoodPage EXCEPT !.drill = ShortRowDrill],
      [GoodPage EXCEPT !.drill.stop = "modal"],
      [GoodPage EXCEPT !.drill.stop = "category"],
      [GoodPage EXCEPT !.drill.row_fault = 2],
      [GoodPage EXCEPT !.cols = <<"2", "T", "02/01", "", " ", "Roads", "Open">>,
                       !.track_button = "none"],
      [GoodPage EXCEPT !.track_button = ""],
      [GoodPage EXCEPT !.load = "fail"],
      [GoodPage EXCEPT !.input = "timeout"],
      [GoodPage EXCEPT !.button = "missing"],
      [GoodPage EXCEPT !.button = "error"],
      NoDataPage,
      [NoDataPage EXCEPT !.tbody = "text"],
      [NoDataPage EXCEPT !.tbody = "missing"],
      [GoodPage EXCEPT !.cols = <<"No records found">>],
      [GoodPage EXCEPT !.cell_fault = 4] }

(***************************************************************************)
(* extract_token_details_from_table, extract_track_details, process_token  *)
(***************************************************************************)
\* A normalizer that leaves an empty location as it is.
M_ReplaceEmptyWithUnknown_skip_location(data) ==
    [k \in DOMAIN data |->
        IF k \notin {"has_track_button", "location"} /\ data[k] = ""
        THEN "Unknown" ELSE data[k]]
\* _replace_empty_with_unknown
ReplaceEmptyWithUnknown(data) ==
    [k \in DOMAIN data |->
        IF k # "has_track_button" /\ data[k] = "" THEN "Unknown" ELSE data[k]]

\* The first n listing keys, read from the first n cells.
ListingCells(cols, n) ==
    [k \in {ListingKeys[j] : j \in 1..n} |->
        Strip(cols[CHOOSE j \in 1..n : ListingKeys[j] = k])]

\* extract_token_details_from_table: a timeout of the wait and any other
\* exception end the reading and are not passed on.
ExtractTokenDetails(page) ==
    LET details ==
            IF page.rows_wait # "ok" THEN EmptyDict
            ELSE IF Len(page.cols) < 7 THEN EmptyDict
            ELSE IF page.cell_fault \in 1..7
                 THEN ListingCells(page.cols, page.cell_fault - 1)
            ELSE IF Len(page.cols) > 7 /\ page.track_button # "none"
                 THEN ListingCells(page.cols, 7)
                        @@ [has_track_button |-> TRUE,
                            track_button_id |-> page.track_button]
            ELSE ListingCells(page.cols, 7) @@ [has_track_button |-> FALSE]
    IN  ReplaceEmptyWithUnknown(details)

\* The overview fields read before step stop raises.
OverviewRead(drill) ==
    LET n == CASE drill.stop \in {"button", "modal", "token"} -> 0
               [] drill.stop = "status" -> 1
               [] drill.stop = "category" -> 2
               [] drill.stop = "date" -> 3
               [] OTHER -> 4
        keys == <<"token_no", "status", "complaint_category", "expected_resolved_date">>
    IN  [k \in {keys[j] : j \in 1..n} |-> Strip(drill.overview[k])]

\* The dict extract_track_details builds from a history row of 11 or more columns.
TrackDetail(cols) ==
    [k \in {TrackKeys[j] : j \in 1..12} |->
        LET j == CHOOSE x \in 1..12 : TrackKeys[x] = k
        IN  IF j <= Len(cols) THEN Strip(cols[j]) ELSE ""]

\* A loop over the history rows that ends at the first row of fewer than 11
\* columns.
RECURSIVE M_TrackDetails_stop_at_short_row(_, _)
M_TrackDetails_stop_at_short_row(drill, i) ==
    IF i > Len(drill.rows) \/ drill.row_fault = i THEN <<>>
    ELSE IF Len(drill.rows[i]) >= 11
         THEN <<TrackDetail(drill.rows[i])>>
                \o M_TrackDetails_stop_at_short_row(drill, i + 1)
         ELSE <<>>
\* The loop over the history rows from row i on.
RECURSIVE TrackDetails(_, _)
TrackDetails(drill, i) ==
    IF i > Len(drill.rows) \/ drill.row_fault = i THEN <<>>
    ELSE IF Len(drill.rows[i]) >= 11
         THEN <<TrackDetail(drill.rows[i])>> \o TrackDetails(drill, i + 1)
         ELSE TrackDetails(drill, i + 1)

\* extract_track_details: a timeout and any other exception end the reading
\* and are not passed on.  find_element of an id the listing row does not
\* carry raises NoSuchElementException.
ExtractTrackDetails(page, track_button_id) ==
    LET drill == IF track_button_id = page.track_button
                 THEN page.drill
                 ELSE [page.drill EXCEPT !.stop = "button"]
    IN  [overall_info |-> OverviewRead(drill),
         tracking_details |->
            IF drill.stop = "none" THEN TrackDetails(drill, 1) ELSE <<>>]

NoDataError == "No data found for this token"

\* process_token that gives up the listing status when the drill-down did not
\* read the whole modal.
M_ProcessToken_failed_on_drill_failure(token, page) ==
    LET result == [token |-> token, status |-> "Failed", error |-> NULL,
                   token_details |-> EmptyDict, complaint_track |-> EmptyDict]
        token_details == ExtractTokenDetails(page)
        drilled == /\ Get(token_details, "has_track_button", FALSE)
                   /\ Get(token_details, "track_button_id", "") # ""
        whole == /\ token_details.track_button_id = page.track_button
                 /\ page.drill.stop = "none"
                 /\ page.drill.row_fault = 0
    IN  IF page.load = "fail"
        THEN [result EXCEPT !.error = "Failed to load website: <message>"]
        ELSE IF page.input = "timeout"
        THEN [result EXCEPT !.error = "Timeout waiting for page elements"]
        ELSE IF page.button = "missing"
        THEN [result EXCEPT !.error = "Element not found: <message>"]
        ELSE IF page.button = "error"
        THEN [result EXCEPT !.error = "Error processing token: <message>"]
        ELSE IF token_details # EmptyDict
        THEN [result EXCEPT
                !.token_details = token_details,
                !.status = IF drilled /\ ~whole THEN "Failed"
                           ELSE Get(token_details, "status", "Unknown"),
                !.complaint_track =
                    IF drilled
                    THEN ExtractTrackDetails(page, token_details.track_button_id)
                    ELSE EmptyDict]
        ELSE IF page.tbody = "empty" THEN [result EXCEPT !.error = NoDataError]
        ELSE IF page.tbody = "missing"
        THEN [result EXCEPT !.error = "Could not find any data for this token"]
        ELSE result
\* process_token
ProcessToken(token, page) ==
    LET result == [token |-> token, status |-> "Failed", error |-> NULL,
                   token_details |-> EmptyDict, complaint_track |-> EmptyDict]
        token_details == ExtractTokenDetails(page)
    IN  IF page.load = "fail"
        THEN [result EXCEPT !.error = "Failed to load website: <message>"]
        ELSE IF page.input = "timeout"
        THEN [result EXCEPT !.error = "Timeout waiting for page elements"]
        ELSE IF page.button = "missing"
        THEN [result EXCEPT !.error = "Element not found: <message>"]
        ELSE IF page.button = "error"
        THEN [result EXCEPT !.error = "Error processing token: <message>"]
        ELSE IF token_details # EmptyDict
        THEN [result EXCEPT
                !.token_details = token_details,
                !.status = Get(token_details, "status", "Unknown"),
                !.complaint_track =
                    IF /\ Get(token_details, "has_track_button", FALSE)
                       /\ Get(token_details, "track_button_id", "") # ""
                    THEN ExtractTrackDetails(page, token_details.track_button_id)
                    ELSE EmptyDict]
        ELSE IF page.tbody = "empty" THEN [result EXCEPT !.error = NoDataError]
        ELSE IF page.tbody = "missing"
        THEN [result EXCEPT !.error = "Could not find any data for this token"]
        ELSE result

(***************************************************************************)
(* fetch_token_details, main, lambda_handler                               *)
(***************************************************************************)
\* Most tokens given to one run.
MaxTokens == 2

\* A token validate_token rejects.
TokBad == <<"A", "0">>

RECURSIVE TokenLists(_)
TokenLists(n) ==
    IF n = 0 THEN {<<>>}
    ELSE TokenLists(n - 1)
            \cup {Append(l, t) : l \in {x \in TokenLists(n - 1) : Len(x) = n - 1},
                                 t \in {TokA, TokB, TokBad}}

\* A filter that lets every token through.
M_ValidTokens_keep_all(tokens) == tokens
\* [token for token in tokens if validate_token(token)]
RECURSIVE ValidTokens(_)
ValidTokens(tokens) ==
    IF tokens = <<>> THEN <<>>
    ELSE IF validate_token(Head(tokens))
         THEN <<Head(tokens)>> \o ValidTokens(Tail(tokens))
         ELSE ValidTokens(Tail(tokens))

BatchInit ==
    /\ entry \in {"main", "lambda"}
    /\ pc = "start"
    /\ argv_tokens \in TokenLists(MaxTokens)
    /\ entry = "main" => argv_tokens # <<>>
    /\ valid_tokens = <<>>
    /\ fetch_results = <<>>
    /\ pages = <<>>
    /\ results = <<>>
    /\ driver = "none"
    /\ user_data_dir = "absent"
    /\ setup_calls = 0
    /\ quit_calls = 0
    /\ exported = <<>>
    /\ exc = "none"
    /\ save_idx = 0

\* main, lines 470-473; lambda_handler, lines 413-418.
FilterTokens ==
    /\ pc = "start"
    /\ valid_tokens' = ValidTokens(argv_tokens)
    /\ pc' = IF ValidTokens(argv_tokens) = <<>> THEN "done" ELSE "connect"
    /\ UNCHANGED <<entry, argv_tokens, fetch_results, pages, results, driver,
                   user_data_dir, setup_calls, quit_calls, exported, exc, save_idx,
                   validate_vars, store_vars>>

\* repo.connect() returns.
BatchConnect ==
    /\ pc = "connect"
    /\ ConnectEffect
    /\ pc' = "setup"
    /\ UNCHANGED <<entry, argv_tokens, valid_tokens, fetch_results, pages, results,
                   driver, user_data_dir, setup_calls, quit_calls, exported, exc,
                   save_idx, validate_vars>>

\* repo.connect() raises: the except clause of the entry point ends the run.
BatchConnectFails ==
    /\ pc = "connect"
    /\ exc' = "Exception"
    /\ pc' = "done"
    /\ UNCHANGED <<entry, argv_tokens, valid_tokens, fetch_results, pages, results,
                   driver, user_data_dir, setup_calls, quit_calls, exported, save_idx,
                   validate_vars, store_vars>>

\* fetch_token_details up to the loop: setup_driver returns a driver whose
\* browser runs on a new user-data directory.
SetupDriver ==
    /\ pc = "setup"
    /\ driver' = "open"
    /\ user_data_dir' = "present"
    /\ setup_calls' = setup_calls + 1
    /\ pc' = "loop"
    /\ UNCHANGED <<entry, argv_tokens, valid_tokens, fetch_results, pages, results,
                   quit_calls, exported, exc, save_idx, validate_vars, store_vars>>

\* setup_driver raises: driver stays None, the finally clause of
\* fetch_token_details quits nothing, the except clause of the entry point
\* ends the run.  The browser may or may not have made its directory.
SetupDriverFails ==
    /\ pc = "setup"
    /\ user_data_dir' \in {"absent", "present"}
    /\ exc' = "Exception"
    /\ pc' = "done"
    /\ UNCHANGED <<entry, argv_tokens, valid_tokens, fetch_results, pages, results,
                   driver, setup_calls, quit_calls, exported, save_idx,
                   validate_vars, store_vars>>

\* A loop that stops at the first token whose result carries an error.
M_FetchProcessToken_break_on_error ==
    /\ pc = "loop"
    /\ Len(fetch_results) < Len(valid_tokens)
    /\ \E page \in Pages :
        LET result == ProcessToken(valid_tokens[Len(fetch_results) + 1], page)
        IN  IF result.error = NULL
            THEN /\ fetch_results' = Append(fetch_results, result)
                 /\ pages' = Append(pages, page)
                 /\ UNCHANGED <<pc, results, driver, quit_calls, save_idx>>
            ELSE /\ driver' = "quit"
                 /\ quit_calls' = quit_calls + 1
                 /\ results' = fetch_results
                 /\ pc' = IF entry = "main" THEN "export" ELSE "save"
                 /\ save_idx' = 1
                 /\ UNCHANGED <<fetch_results, pages>>
    /\ UNCHANGED <<entry, argv_tokens, valid_tokens, user_data_dir, setup_calls,
                   exported, exc, validate_vars, store_vars>>
\* One turn of the loop of fetch_token_details.
FetchProcessToken ==
    /\ pc = "loop"
    /\ Len(fetch_results) < Len(valid_tokens)
    /\ \E page \in Pages :
        /\ fetch_results' =
              Append(fetch_results,
                     ProcessToken(valid_tokens[Len(fetch_results) + 1], page))
        /\ pages' = Append(pages, page)
    /\ UNCHANGED <<entry, pc, argv_tokens, valid_tokens, results, driver,
                   user_data_dir, setup_calls, quit_calls, exported, exc, save_idx,
                   validate_vars, store_vars>>

\* A fetch_token_details that returns as soon as it has one result.
M_FetchReturn_before_last ==
    /\ pc = "loop"
    /\ Len(fetch_results) >= 1
    /\ driver' = "quit"
    /\ quit_calls' = quit_calls + 1
    /\ results' = fetch_results
    /\ pc' = IF entry = "main" THEN "export" ELSE "save"
    /\ save_idx' = 1
    /\ UNCHANGED <<entry, argv_tokens, valid_tokens, fetch_results, pages,
                   user_data_dir, setup_calls, exported, exc,
                   validate_vars, store_vars>>
\* The loop is over: the finally clause quits the driver, the results are
\* returned to the entry point.
FetchReturn ==
    /\ pc = "loop"
    /\ Len(fetch_results) = Len(valid_tokens)
    /\ driver' = "quit"
    /\ quit_calls' = quit_calls + 1
    /\ results' = fetch_results
    /\ pc' = IF entry = "main" THEN "export" ELSE "save"
    /\ save_idx' = 1
    /\ UNCHANGED <<entry, argv_tokens, valid_tokens, fetch_results, pages,
                   user_data_dir, setup_calls, exported, exc,
                   validate_vars, store_vars>>

\* KeyboardInterrupt while a token is processed or slept after: no
\* "except Exception" catches it; the finally clause of fetch_token_details
\* quits the driver, and the interrupt leaves the entry point.
FetchInterrupted ==
    /\ pc = "loop"
    /\ Len(fetch_results) < Len(valid_tokens)
    /\ driver' = "quit"
    /\ quit_calls' = quit_calls + 1
    /\ exc' = "KeyboardInterrupt"
    /\ pc' = "done"
    /\ UNCHANGED <<entry, argv_tokens, valid_tokens, fetch_results, pages, results,
                   user_data_dir, setup_calls, exported, save_idx,
                   validate_vars, store_vars>>

\* main, lines 485-489: the results are written to the JSON file.
ExportJson ==
    /\ pc = "export"
    /\ exported' = results
    /\ pc' = "save"
    /\ UNCHANGED <<entry, argv_tokens, valid_tokens, fetch_results, pages, results,
                   driver, user_data_dir, setup_calls, quit_calls, exc, save_idx,
                   validate_vars, store_vars>>

\* Writing the JSON file raises.
ExportJsonFails ==
    /\ pc = "export"
    /\ exc' = "Exception"
    /\ pc' = "done"
    /\ UNCHANGED <<entry, argv_tokens, valid_tokens, fetch_results, pages, results,
                   driver, user_data_dir, setup_calls, quit_calls, exported, save_idx,
                   validate_vars, store_vars>>

\* One turn of "for result in results: repo.save_complaint(result)".
SaveResult ==
    /\ pc = "save"
    /\ save_idx <= Len(results)
    /\ SaveEffect(results[save_idx])
    /\ save_idx' = save_idx + 1
    /\ UNCHANGED <<conn, entry, pc, argv_tokens, valid_tokens, fetch_results, pages,
                   results, driver, user_data_dir, setup_calls, quit_calls, exported,
                   exc, validate_vars>>

\* repo.save_complaint raises (the server is gone): nothing of the call is
\* committed, the except clause of the entry point ends the run.
SaveResultFails ==
    /\ pc = "save"
    /\ save_idx <= Len(results)
    /\ exc' = "Exception"
    /\ pc' = "done"
    /\ UNCHANGED <<entry, argv_tokens, valid_tokens, fetch_results, pages, results,
                   driver, user_data_dir, setup_calls, quit_calls, exported, save_idx,
                   validate_vars, store_vars>>

\* The save loop is over: repo.close(); lambda_handler returns the results in
\* its 200 response.
SaveDone ==
    /\ pc = "save"
    /\ save_idx > Len(results)
    /\ CloseEffect
    /\ exported' = IF entry = "lambda" THEN results ELSE exported
    /\ pc' = "done"
    /\ UNCHANGED <<entry, argv_tokens, valid_tokens, fetch_results, pages, results,
                   driver, user_data_dir, setup_calls, quit_calls, exc, save_idx,
                   validate_vars>>

BatchIdle ==
    /\ entry = "none"
    /\ pc = "idle"
    /\ argv_tokens = <<>>
    /\ valid_tokens = <<>>
    /\ fetch_results = <<>>
    /\ pages = <<>>
    /\ results = <<>>
    /\ driver = "none"
    /\ user_data_dir = "absent"
    /\ setup_calls = 0
    /\ quit_calls = 0
    /\ exported = <<>>
    /\ exc = "none"
    /\ save_idx = 0

InitValidate == ValidateInit /\ StoreInit /\ BatchIdle
NextValidate == ValidateTokenCall
SpecValidate == InitValidate /\ [][NextValidate]_vars

InitStore == ValidateIdle /\ StoreInit /\ BatchIdle
NextStore == Connect \/ Close \/ SaveComplaint
SpecStore == InitStore /\ [][NextStore]_vars

InitBatch == ValidateIdle /\ StoreInit /\ BatchInit
NextBatch ==
    \/ FilterTokens
    \/ BatchConnect \/ BatchConnectFails
    \/ SetupDriver \/ SetupDriverFails
    \/ FetchProcessToken \/ FetchReturn \/ FetchInterrupted
    \/ ExportJson \/ ExportJsonFails
    \/ SaveResult \/ SaveResultFails \/ SaveDone
SpecBatch == InitBatch /\ [][NextBatch]_vars

(***************************************************************************)
(* Claims about validate_token (checked under SpecValidate)                *)
(***************************************************************************)
\* ^T[0-9]+$
MatchesTDigits(s) ==
    /\ Len(s) > 1
    /\ s[1] = "T"
    /\ \A i \in 2..Len(s) : s[i] \in AsciiDigits

\* C1, as claimed: validate_token(s) is true if and only if s begins with 'T',
\* is longer than one character and every character after the first is one of
\* the decimal digits 0-9.
C1_ValidateIffTAndAsciiDigits ==
    v_pc = "returned" => (v_result <=> MatchesTDigits(v_token))

(***************************************************************************)
(* Claims about MySQLRepository (checked under SpecStore)                  *)
(***************************************************************************)
\* The tracking_details of a record.
DetailsOf(complaint_data) ==
    Get(Get(complaint_data, "complaint_track", EmptyDict), "tracking_details", <<>>)
\* The rows of a tracking table with a given token and action_date.
RowsWithKey(table, token, action_date) ==
    {r \in BagToSet(table) : r.token = token /\ r.action_date = action_date}
\* How many rows of a tracking table are in a set of rows.
RECURSIVE CopiesOfAll(_, _)
CopiesOfAll(table, rows) ==
    IF rows = {} THEN 0
    ELSE LET r == CHOOSE x \in rows : TRUE
         IN  CopiesIn(r, table) + CopiesOfAll(table, rows \ {r})

\* C2, as claimed: a save_complaint call that gets the record of the call before
\* it, which had committed, leaves both tables as they were, and table
\* complaints then holds exactly one row for the token, with the values of the
\* call.
C2_SecondIdenticalSaveChangesNothing ==
    [][(repeated' /\ last_call'.outcome = "saved") =>
        /\ complaints' = complaints
        /\ tracking_history' = tracking_history
        /\ {c \in complaints' : c.token = last_call'.record.token}
              = {ComplaintParams(last_call'.record.token, last_call'.record)}]_vars

\* C3: table tracking_history never loses or changes a row; and after a
\* save_complaint call that committed, each (token, action_date) the call
\* supplied has exactly one row: the row the connection already saw for it if
\* there was one (whatever remark the call supplied), and otherwise the row of
\* the first item of the call with that action_date.
C3_TrackingRowsInsertOrIgnore ==
    [][/\ \A r \in BagToSet(tracking_history) :
            CopiesIn(r, tracking_history') >= CopiesIn(r, tracking_history)
       /\ (last_call'.outcome = "saved") =>
            LET rec == last_call'.record
                details == DetailsOf(rec)
            IN  \A i \in 1..Len(details) :
                    "action_date" \in DOMAIN details[i] =>
                        LET d == details[i].action_date
                            before == RowsWithKey(txn_tracking_history, rec.token, d)
                            after == RowsWithKey(tracking_history', rec.token, d)
                            first == CHOOSE j \in 1..Len(details) :
                                        /\ "action_date" \in DOMAIN details[j]
                                        /\ details[j].action_date = d
                                        /\ \A k \in 1..(j - 1) :
                                              ~("action_date" \in DOMAIN details[k]
                                                /\ details[k].action_date = d)
                        IN  /\ CopiesOfAll(tracking_history', after) = 1
                            /\ before # {} => after = before
                            /\ before = {} =>
                                  after = {TrackingParams(rec.token, details[first])}]_vars
\* C3 witness: the latest call committed and supplied, for an action_date, only
\* remarks that differ from the remark of the row stored for it.
C3_Witness ==
    /\ last_call.outcome = "saved"
    /\ \E r \in BagToSet(tracking_history) :
        LET details == DetailsOf(last_call.record)
        IN  /\ r.token = last_call.record.token
            /\ \E i \in 1..Len(details) :
                    /\ "action_date" \in DOMAIN details[i]
                    /\ details[i].action_date = r.action_date
            /\ \A i \in 1..Len(details) :
                    ("action_date" \in DOMAIN details[i]
                        /\ details[i].action_date = r.action_date)
                    => details[i].remark # r.remark

\* C4, as claimed: no two rows of tracking_history have the same token and the
\* same action_date.
C4_TokenActionDateUnique ==
    \A r \in BagToSet(tracking_history) :
        CopiesOfAll(tracking_history,
                    RowsWithKey(tracking_history, r.token, r.action_date)) = 1

\* C5: every row of tracking_history has the token of a row of complaints, in
\* the committed tables and in what the open connection sees in the middle of
\* its transaction.
C5_NoOrphanTrackingRow ==
    /\ \A r \in BagToSet(tracking_history) : \E c \in complaints : c.token = r.token
    /\ \A r \in BagToSet(txn_tracking_history) :
            \E c \in txn_complaints : c.token = r.token
\* C5 witness: a token with stored tracking rows was saved again, by a call
\* that brought none of them, and a call for the other token has rows too.
C5_Witness ==
    /\ last_call.outcome = "saved"
    /\ DetailsOf(last_call.record) = <<>>
    /\ \E r \in BagToSet(tracking_history) : r.token = last_call.record.token
    /\ \E r \in BagToSet(tracking_history) : r.token # last_call.record.token


(***************************************************************************)
(* Claims about the batch (checked under SpecBatch)                        *)
(***************************************************************************)
\* The listing table is there and holds nothing: no row turned up within the
\* wait, and element table-data has no text.
ListingEmpty(page) ==
    /\ page.load = "ok" /\ page.input = "ok" /\ page.button = "ok"
    /\ page.rows_wait = "timeout"
    /\ page.tbody = "empty"
\* The processing of the page runs into a fault at page load, at the lookup of
\* the input or of the submit control, at the wait for the listing rows, or at
\* the reading of a listing cell.
HitsFault(page) ==
    \/ page.load = "fail"
    \/ page.load = "ok" /\ page.input # "ok"
    \/ page.load = "ok" /\ page.input = "ok" /\ page.button # "ok"
    \/ /\ page.load = "ok" /\ page.input = "ok" /\ page.button = "ok"
       /\ \/ page.rows_wait # "ok"
          \/ Len(page.cols) >= 7 /\ page.cell_fault \in 1..7

\* C6, as claimed: a token whose listing table is there and empty gets status
\* "Failed" and error "No data found for this token", and, when the run met
\* nothing else for that token, neither the committed table complaints nor the
\* connection's view of it holds a row for the token.
C6_NoDataTokenNotPersisted ==
    \A i \in 1..Len(fetch_results) :
        ListingEmpty(pages[i]) =>
            /\ fetch_results[i].status = "Failed"
            /\ fetch_results[i].error = NoDataError
            /\ (\A j \in 1..Len(fetch_results) :
                    valid_tokens[j] = valid_tokens[i] => ListingEmpty(pages[j]))
                => \A c \in complaints \cup txn_complaints : c.token # valid_tokens[i]

\* C7: the results collected so far are, position by position, the results of
\* the tokens handed in, each the outcome of its own token on its own page
\* whatever the other tokens met; and the list fetch_token_details returns has
\* one result for every token.
C7_OneResultPerTokenInOrder ==
    /\ Len(fetch_results) <= Len(valid_tokens)
    /\ Len(pages) = Len(fetch_results)
    /\ \A i \in 1..Len(fetch_results) :
        /\ fetch_results[i].token = valid_tokens[i]
        /\ fetch_results[i] = ProcessToken(valid_tokens[i], pages[i])
    /\ pc \in {"export", "save"} =>
        /\ Len(results) = Len(valid_tokens)
        /\ results = fetch_results
\* C7 witness: fetch_token_details returned two results, the first of a token
\* that ran into a fault, the second of a token whose listing and history were
\* read.
C7_Witness ==
    /\ pc \in {"export", "save"}
    /\ Len(results) = 2
    /\ HitsFault(pages[1]) /\ results[1].error # NULL
    /\ results[2].error = NULL
    /\ results[2].status = "Closed"
    /\ Len(results[2].complaint_track.tracking_details) = 2

\* C8, as claimed: the result of a token whose processing ran into a fault
\* carries an error.
C8_FaultRecordedInError ==
    \A i \in 1..Len(fetch_results) :
        HitsFault(pages[i]) => fetch_results[i].error # NULL

\* C9, as claimed: when the run ends by a user interrupt, every result
\* collected before it is in the export or in table complaints.
C9_InterruptFlushesCollected ==
    (pc = "done" /\ exc = "KeyboardInterrupt") =>
        \A i \in 1..Len(fetch_results) :
            \/ \E j \in 1..Len(exported) : exported[j] = fetch_results[i]
            \/ \E c \in complaints : c.token = fetch_results[i].token

\* C10, as claimed: at most one session is started, it is open during the
\* loop, it is quit no more often than it was started, and when the run is
\* over a session that was started is quit, once, and its user-data directory
\* is gone.
C10_SessionAndDirReleasedOnce ==
    /\ setup_calls <= 1
    /\ quit_calls <= setup_calls
    /\ pc = "loop" => driver = "open"
    /\ pc = "done" =>
        /\ driver # "open"
        /\ quit_calls = setup_calls
        /\ setup_calls = 1 => user_data_dir = "absent"

\* The first listing row was read whole.
ListingRead(page) ==
    /\ page.load = "ok" /\ page.input = "ok" /\ page.button = "ok"
    /\ page.rows_wait = "ok"
    /\ Len(page.cols) >= 7
    /\ page.cell_fault = 0
\* The listing row carries a detail trigger.
HasTrigger(page) == Len(page.cols) > 7 /\ page.track_button # "none"
\* The drill-down does not get through the whole modal.
DrillFails(page) ==
    \/ page.track_button = ""
    \/ page.drill.stop # "none"
    \/ page.drill.row_fault # 0
\* A cell text as the result carries it.
Normalised(text) == IF Strip(text) = "" THEN "Unknown" ELSE Strip(text)

\* C11: for a token whose listing row was read and has a detail trigger, the
\* result carries what the drill-down returned; its status is the status of
\* the listing and is not "Failed", its listing fields are those of the row;
\* and when the drill-down fails, the overview holds only fields of the modal
\* (none, or fewer than four) and the history only rows of the modal.
C11_DrillDownFailureKeepsListing ==
    \A i \in 1..Len(fetch_results) :
        LET page == pages[i]
            r == fetch_results[i]
        IN  (ListingRead(page) /\ HasTrigger(page)) =>
                /\ r.status = Normalised(page.cols[7])
                /\ r.status # "Failed"
                /\ \A j \in 1..7 :
                        r.token_details[ListingKeys[j]] = Normalised(page.cols[j])
                /\ DOMAIN r.complaint_track = {"overall_info", "tracking_details"}
                /\ DrillFails(page) =>
                    LET overall_info == r.complaint_track.overall_info
                        tracking_details == r.complaint_track.tracking_details
                    IN  /\ \A k \in DOMAIN overall_info :
                                overall_info[k] = Strip(page.drill.overview[k])
                        /\ page.drill.stop # "none" =>
                                /\ Cardinality(DOMAIN overall_info) < 4
                                /\ tracking_details = <<>>
                        /\ Len(tracking_details) <= Len(page.drill.rows)
                        /\ \A n \in 1..Len(tracking_details) :
                                \E m \in 1..Len(page.drill.rows) :
                                    /\ Len(page.drill.rows[m]) >= 11
                                    /\ tracking_details[n].action_date
                                            = Strip(page.drill.rows[m][10])
                                    /\ tracking_details[n].remark
                                            = Strip(page.drill.rows[m][9])
\* C11 witness: two drill-downs failed, one at the wait for the modal and one
\* at the third overview field, and both results have the listing status.
C11_Witness ==
    /\ Len(fetch_results) = 2
    /\ ListingRead(pages[1]) /\ pages[1].drill.stop = "modal"
    /\ ListingRead(pages[2]) /\ pages[2].drill.stop = "category"
    /\ fetch_results[1].status = "Closed"
    /\ fetch_results[1].complaint_track.overall_info = EmptyDict
    /\ fetch_results[2].status = "Closed"
    /\ DOMAIN fetch_results[2].complaint_track.overall_info = {"token_no", "status"}

\* A step of save_complaint: the connection is open before and after it.
SaveStep == conn = "open" /\ conn' = "open"
\* Column value v is what dict d gives for key k; for a key d lacks it is a
\* default of the call and not a value kept from before.
ColumnIs(v, d, k) == IF k \in DOMAIN d THEN v = d[k] ELSE v \in {NULL, "Unknown"}

\* C12: table complaints never holds two rows for a token, in the committed
\* table and in what the connection sees.  A save_complaint call that runs
\* its upsert leaves, in what the connection sees, one row for its token whose
\* six other columns are those of the call's record, and no other row
\* changed; the committed table changes only when a call commits, to what the
\* connection then sees.
C12_UpsertLastWriteWins ==
    [][/\ \A c1, c2 \in complaints' : c1.token = c2.token => c1 = c2
       /\ \A c1, c2 \in txn_complaints' : c1.token = c2.token => c1 = c2
       /\ (SaveStep /\ last_call'.outcome \in {"saved", "raised"}) =>
            LET rec == last_call'.record
                token_details == Get(rec, "token_details", EmptyDict)
                overall_info ==
                    Get(Get(rec, "complaint_track", EmptyDict), "overall_info", EmptyDict)
                mine == {c \in txn_complaints' : c.token = rec.token}
            IN  /\ Cardinality(mine) = 1
                /\ \A c \in mine :
                        /\ ColumnIs(c.status, rec, "status")
                        /\ ColumnIs(c.description, token_details, "description")
                        /\ ColumnIs(c.location, token_details, "location")
                        /\ ColumnIs(c.complaint_type, token_details, "complaint_type")
                        /\ ColumnIs(c.complaint_category, overall_info,
                                    "complaint_category")
                        /\ ColumnIs(c.expected_resolved_date, overall_info,
                                    "expected_resolved_date")
                /\ {c \in txn_complaints' : c.token # rec.token}
                        = {c \in txn_complaints : c.token # rec.token}
       /\ (SaveStep /\ last_call'.outcome = "saved") => complaints' = txn_complaints'
       /\ complaints' # complaints => (SaveStep /\ last_call'.outcome = "saved")]_vars
\* C12 witness: the latest call committed a record of token T0 with an empty
\* description, no location and no overview, over a row of T0 that an earlier
\* call had committed with all six columns filled.
C12_Witness ==
    /\ last_call.outcome = "saved"
    /\ last_call.record = PartialData(TokA, <<>>)
    /\ \E r \in BagToSet(tracking_history) : r.token = TokA /\ r.remark = "r1"
    /\ \E c \in complaints :
            /\ c.token = TokA /\ c.status = "Open" /\ c.description = ""
            /\ c.complaint_category = NULL

\* C13, as claimed: when the run ends by an exception of the persistence
\* phase (repo.connect or repo.save_complaint raises), the results that
\* fetch_token_details had returned are in the export.
C13_PersistenceFailureKeepsResults ==
    [][(pc \in {"connect", "save"} /\ pc' = "done" /\ exc' = "Exception")
            => exported' = results']_vars

\* The record has no token, or an empty one.
NoToken(complaint_data) == Get(complaint_data, "token", <<>>) = <<>>

\* C14: a save_complaint call with a record whose token is missing or empty
\* returns at the token check, and neither the committed tables nor what the
\* connection sees change by it: writes the connection had pending stay
\* uncommitted.
C14_MissingTokenSkipped ==
    [][(SaveStep /\ NoToken(last_call'.record) /\ last_call'.outcome # "none") =>
            /\ last_call'.outcome = "skipped"
            /\ complaints' = complaints
            /\ tracking_history' = tracking_history
            /\ txn_complaints' = txn_complaints
            /\ txn_tracking_history' = txn_tracking_history]_vars
\* C14 witness: the latest call got a record without token, while the
\* connection held uncommitted writes of a call that had raised.
C14_Witness ==
    /\ last_call.outcome = "skipped"
    /\ "token" \notin DOMAIN last_call.record
    /\ conn = "open"
    /\ txn_complaints # complaints
    /\ txn_tracking_history # tracking_history

\* C15: once the filter has run, valid_tokens is the list of the given tokens
\* that pass validate_token, in their order; process_token is called only
\* with tokens that pass; a database connection or a browser session exists
\* only after the filter has run and has left a token; fetch_token_details
\* returns one result for each given token that passes, whatever other
\* tokens were given; and when no given token passes, the run goes from its
\* start to its end with no connection and no session opened.
C15_InvalidTokensFilteredFirst ==
    LET passing == SelectSeq(argv_tokens, validate_token)
    IN  /\ pc # "start" => valid_tokens = passing
        /\ \A i \in 1..Len(fetch_results) : validate_token(fetch_results[i].token)
        /\ (conn = "open" \/ driver # "none" \/ setup_calls > 0 \/ fetch_results # <<>>)
                => (pc # "start" /\ passing # <<>>)
        /\ pc \in {"export", "save"} =>
                /\ Len(results) = Len(passing)
                /\ \A i \in 1..Len(passing) : results[i].token = passing[i]
        /\ passing = <<>> =>
                /\ pc \in {"start", "done"}
                /\ conn = "closed" /\ driver = "none" /\ setup_calls = 0
                /\ fetch_results = <<>> /\ exc = "none"
\* C15 witness: a run that was given an invalid token ahead of a valid one
\* has ended, with one result, of the valid token, saved.
C15_Witness ==
    /\ argv_tokens = <<TokBad, TokA>>
    /\ pc = "done" /\ exc = "none"
    /\ Len(results) = 1 /\ results[1].token = TokA
    /\ \E c \in complaints : c.token = TokA

\* The results the save loop has given to save_complaint so far.
SavedResults == IF save_idx >= 1 THEN SubSeq(results, 1, save_idx - 1) ELSE <<>>
\* The number of tracking events of a list of records.
RECURSIVE EventCount(_)
EventCount(records) ==
    IF records = <<>> THEN 0
    ELSE Len(DetailsOf(Head(records))) + EventCount(Tail(records))
\* The records have pairwise distinct tokens and their events pairwise
\* distinct (token, action_date).
DistinctKeys(records) ==
    /\ \A i, j \in 1..Len(records) : records[i].token = records[j].token => i = j
    /\ \A i \in 1..Len(records) :
            LET details == DetailsOf(records[i])
            IN  \A m, n \in 1..Len(details) :
                    details[m].action_date = details[n].action_date => m = n

\* C16: a run starts on an empty store; when the records its save loop has
\* saved so far have pairwise distinct tokens and events with pairwise
\* distinct (token, action_date), table complaints holds one row for each of
\* them and no other, and table tracking_history one row for each of their
\* events and no other.
C16_OneRowPerRecordAndEvent ==
    DistinctKeys(SavedResults) =>
        /\ Cardinality(complaints) = Len(SavedResults)
        /\ \A i \in 1..Len(SavedResults) :
                \E c \in complaints : c.token = SavedResults[i].token
        /\ BagCardinality(tracking_history) = EventCount(SavedResults)
        /\ \A i \in 1..Len(SavedResults) :
                LET details == DetailsOf(SavedResults[i])
                IN  \A n \in 1..Len(details) :
                        CopiesOfAll(tracking_history,
                                    RowsWithKey(tracking_history, SavedResults[i].token,
                                                details[n].action_date)) = 1
\* C16 witness: a run has saved two records of different tokens with two
\* events each.
C16_Witness ==
    /\ pc = "done" /\ exc = "none"
    /\ Len(SavedResults) = 2
    /\ DistinctKeys(SavedResults)
    /\ Len(DetailsOf(SavedResults[1])) = 2
    /\ Len(DetailsOf(SavedResults[2])) = 2
    /\ Cardinality(complaints) = 2
    /\ BagCardinality(tracking_history) = 4

\* C17, as claimed: after a save_complaint call that committed, each of the
\* text columns description, location and complaint_type of the row of its
\* token is the value the record's token_details has for it, and is not
\* "Unknown" when token_details has none.
C17_StoreNeverSubstitutesUnknown ==
    last_call.outcome = "saved" =>
        LET rec == last_call.record
            token_details == Get(rec, "token_details", EmptyDict)
        IN  \A c \in complaints :
                c.token = rec.token =>
                    \A col \in {"description", "location", "complaint_type"} :
                        IF col \in DOMAIN token_details
                        THEN c[col] = token_details[col]
                        ELSE c[col] # "Unknown"

\* C18, as claimed: a save_complaint call that raises partway leaves the
\* committed tables as they were, and a call that commits changes in the
\* committed tables only what it wrote itself: no row of another token
\* appears or changes in complaints, and every row tracking_history gains
\* has the call's token and the values of one of the call's events.
C18_CallWritesCommittedAsOneUnit ==
    [][/\ (SaveStep /\ last_call'.outcome = "raised") =>
            /\ complaints' = complaints
            /\ tracking_history' = tracking_history
       /\ (SaveStep /\ last_call'.outcome = "saved") =>
            LET rec == last_call'.record
                details == DetailsOf(rec)
            IN  /\ {c \in complaints' : c.token # rec.token}
                        = {c \in complaints : c.token # rec.token}
                /\ \A r \in BagToSet(tracking_history') :
                        CopiesIn(r, tracking_history') > CopiesIn(r, tracking_history) =>
                            \E i \in 1..Len(details) :
                                r = TrackingParams(rec.token, details[i])]_vars

\* The token input field, or after it the search submit control, is not found.
ControlNotLocated(page) ==
    /\ page.load = "ok"
    /\ \/ page.input = "timeout"
       \/ page.input = "ok" /\ page.button = "missing"

\* C19, as claimed: a token whose input field or whose submit control is not
\* found gets status "Failed" and the element-not-found error, whichever of
\* the two controls it was, and neither listing fields nor drill-down data.
C19_ControlNotFoundIsElementNotFound ==
    \A i \in 1..Len(fetch_results) :
        ControlNotLocated(pages[i]) =>
            /\ fetch_results[i].status = "Failed"
            /\ fetch_results[i].error = "Element not found: <message>"
            /\ fetch_results[i].token_details = EmptyDict
            /\ fetch_results[i].complaint_track = EmptyDict

\* The errors of process_token that tell of a timeout.
TimeoutErrors == {"Timeout waiting for page elements"}
\* The wait for the first listing row expires.
ListingWaitExpires(page) ==
    /\ page.load = "ok" /\ page.input = "ok" /\ page.button = "ok"
    /\ page.rows_wait = "timeout"

\* C20, as claimed: a token whose wait for the first listing row expires gets
\* status "Failed", and a timeout error unless the results table is there
\* and empty; and the error "No data found for this token" is given only
\* when the results table is there and empty.
C20_ListingTimeoutIsTimeoutError ==
    \A i \in 1..Len(fetch_results) :
        /\ ListingWaitExpires(pages[i]) =>
                /\ fetch_results[i].status = "Failed"
                /\ ~ListingEmpty(pages[i]) => fetch_results[i].error \in TimeoutErrors
        /\ fetch_results[i].error = NoDataError => ListingEmpty(pages[i])

\* The drill-down finds its button and the wait for the modal expires.
ModalWaitExpires(page) ==
    /\ ListingRead(page) /\ HasTrigger(page)
    /\ page.track_button # ""
    /\ page.drill.stop = "modal"

\* C21, as claimed: for a token whose wait for the modal expires, the result
\* carries the drill-down's return value with an empty overview and an empty
\* history, and the timeout is recorded: in the result's error or under a key
\* error of its complaint_track.
C21_ModalTimeoutRecorded ==
    \A i \in 1..Len(fetch_results) :
        ModalWaitExpires(pages[i]) =>
            LET r == fetch_results[i]
            IN  /\ {"overall_info", "tracking_details"} \subseteq DOMAIN r.complaint_track
                /\ r.complaint_track.overall_info = EmptyDict
                /\ r.complaint_track.tracking_details = <<>>
                /\ \/ r.error # NULL
                   \/ "error" \in DOMAIN r.complaint_track

\* The drill-down gets through the whole modal.
ModalRead(page) ==
    /\ ListingRead(page) /\ HasTrigger(page)
    /\ page.track_button # ""
    /\ page.drill.stop = "none"
    /\ page.drill.row_fault = 0
\* A history row with at least 11 columns.
LongRow(row) == Len(row) >= 11

\* C22: for a token whose modal was read whole, the history of the result has
\* one event for each row of the modal with at least 11 columns, in the order
\* of the rows, whatever shorter rows stand between them; the eleven leading
\* fields of an event are the stripped texts of the row's first eleven
\* columns, and its current_action is the stripped text of the 12th column,
\* or empty when the row has 11 columns.
C22_OneEventPerLongRow ==
    \A i \in 1..Len(fetch_results) :
        ModalRead(pages[i]) =>
            LET long == SelectSeq(pages[i].drill.rows, LongRow)
                tracking_details == fetch_results[i].complaint_track.tracking_details
            IN  /\ Len(tracking_details) = Len(long)
                /\ \A n \in 1..Len(long) :
                        /\ DOMAIN tracking_details[n] = {TrackKeys[j] : j \in 1..12}
                        /\ \A j \in 1..11 :
                                tracking_details[n][TrackKeys[j]] = Strip(long[n][j])
                        /\ tracking_details[n].current_action
                                = IF Len(long[n]) >= 12 THEN Strip(long[n][12]) ELSE ""
\* C22 witness: one modal had a row of 10 columns between two of 12, and gave
\* the events of the first and the third; another had a row of 11 columns,
\* whose event has an empty current_action.
C22_Witness ==
    /\ Len(fetch_results) = 2
    /\ ModalRead(pages[1]) /\ ModalRead(pages[2])
    /\ Len(pages[1].drill.rows) = 3 /\ Len(pages[1].drill.rows[2]) = 10
    /\ Len(fetch_results[1].complaint_track.tracking_details) = 2
    /\ fetch_results[1].complaint_track.tracking_details[2].remark = "r2"
    /\ Len(pages[2].drill.rows[2]) = 11
    /\ fetch_results[2].complaint_track.tracking_details[2].current_action = ""

\* C23: in every result, no text field of token_details is the empty string
\* and has_track_button, when there, is a boolean; for a listing row that was
\* read, each of the seven text fields is the stripped cell text, or "Unknown"
\* when that is empty, has_track_button tells whether the row has a button,
\* and track_button_id is the button's id, or "Unknown" when that is empty;
\* the overview fields and the event fields of the drill-down are the
\* stripped texts of the modal, empty ones included.
C23_NormalizerListingOnly ==
    \A i \in 1..Len(fetch_results) :
        LET page == pages[i]
            token_details == fetch_results[i].token_details
            complaint_track == fetch_results[i].complaint_track
        IN  /\ \A k \in DOMAIN token_details :
                    IF k = "has_track_button"
                    THEN token_details[k] \in BOOLEAN
                    ELSE token_details[k] # ""
            /\ ListingRead(page) =>
                    /\ \A j \in 1..7 :
                            token_details[ListingKeys[j]]
                                = (IF Strip(page.cols[j]) = "" THEN "Unknown"
                                   ELSE Strip(page.cols[j]))
                    /\ token_details.has_track_button = HasTrigger(page)
                    /\ HasTrigger(page) =>
                            token_details.track_button_id
                                = (IF page.track_button = "" THEN "Unknown"
                                   ELSE page.track_button)
            /\ ModalRead(page) =>
                    /\ \A k \in DOMAIN complaint_track.overall_info :
                            complaint_track.overall_info[k] = Strip(page.drill.overview[k])
                    /\ DOMAIN complaint_track.overall_info = DOMAIN page.drill.overview
                    /\ LET long == SelectSeq(page.drill.rows, LongRow)
                       IN  \A n \in 1..Len(complaint_track.tracking_details) :
                                \A j \in 1..11 :
                                    complaint_track.tracking_details[n][TrackKeys[j]]
                                        = Strip(long[n][j])
\* C23 witness: one listing row had an empty description and a blank location,
\* which the result carries as "Unknown" next to an unchanged complaint_type;
\* another token's modal had an empty complaint_category, an empty advice and
\* an empty current_action, which the result carries as empty strings.
C23_Witness ==
    /\ Len(fetch_results) = 2
    /\ ListingRead(pages[1])
    /\ pages[1].cols[4] = "" /\ pages[1].cols[5] = " "
    /\ fetch_results[1].token_details.description = "Unknown"
    /\ fetch_results[1].token_details.location = "Unknown"
    /\ fetch_results[1].token_details.complaint_type = "Roads"
    /\ fetch_results[1].token_details.has_track_button = FALSE
    /\ ModalRead(pages[2])
    /\ fetch_results[2].complaint_track.overall_info.complaint_category = ""
    /\ fetch_results[2].complaint_track.tracking_details[1].advice = ""
    /\ fetch_results[2].complaint_track.tracking_details[2].current_action = ""

\* C24, as claimed: a result with an error has status "Failed"; a result whose
\* status was taken from the listing row has no error; and a result carries
\* drill-down data only when its listing row was read and had a button with
\* a non-empty id.
C24_ErrorImpliesFailedAndDrillNeedsId ==
    \A i \in 1..Len(fetch_results) :
        LET r == fetch_results[i]
        IN  /\ r.error # NULL => r.status = "Failed"
            /\ r.token_details # EmptyDict => r.error = NULL
            /\ r.complaint_track # EmptyDict =>
                    /\ ListingRead(pages[i])
                    /\ HasTrigger(pages[i])
                    /\ pages[i].track_button # ""

\* C25: a session is started, and a token processed, only over an open
\* database connection; a run whose connect fails ends with no session
\* started and no token processed; each step of the loop appends one result,
\* that of the next token, and leaves the earlier results as they are; and
\* save_complaint is called only when every token has its result and the
\* session is quit.
C25_PhasesInFixedOrder ==
    [][/\ (driver' # driver \/ setup_calls' # setup_calls
              \/ fetch_results' # fetch_results)
            => (conn = "open" /\ conn' = "open")
       /\ (pc = "connect" /\ pc' = "done") =>
            /\ conn' = "closed" /\ driver' = "none" /\ setup_calls' = 0
            /\ fetch_results' = <<>> /\ results' = <<>>
       /\ fetch_results' # fetch_results =>
            /\ driver = "open" /\ driver' = "open"
            /\ Len(fetch_results') = Len(fetch_results) + 1
            /\ SubSeq(fetch_results', 1, Len(fetch_results)) = fetch_results
            /\ fetch_results'[Len(fetch_results')].token
                    = valid_tokens[Len(fetch_results')]
       /\ (last_call' # last_call \/ txn_complaints' # txn_complaints
              \/ complaints' # complaints) =>
            /\ Len(fetch_results) = Len(valid_tokens)
            /\ fetch_results' = fetch_results
            /\ results = fetch_results
            /\ driver = "quit" /\ quit_calls = 1
            /\ conn = "open"]_vars
\* C25 witness: a run of two tokens has ended; both were processed, the
\* session was quit, both results were saved and the connection closed.
C25_Witness ==
    /\ pc = "done" /\ exc = "none"
    /\ Len(valid_tokens) = 2 /\ Len(fetch_results) = 2
    /\ valid_tokens[1] # valid_tokens[2]
    /\ driver = "quit" /\ quit_calls = 1 /\ setup_calls = 1
    /\ Cardinality(complaints) = 2
    /\ conn = "closed"

====
